---- MODULE Spec2Model ----
(***************************************************************************)
(* Physics-informed Keras layers of pinn/layers/physics.py:                *)
(* StressIntensityRange, ParisLaw and SNCurve.  One layer instance is      *)
(* modelled: its configuration, its built flag, its kernel attribute, the  *)
(* list of weights the base layer keeps, and the outcome of the last       *)
(* method invoked on it (build, call or compute_output_shape).             *)
(*                                                                         *)
(* Tensors are a static shape plus their run-time data.  An unknown        *)
(* (None) dimension is written -1, as TensorFlow itself encodes it.        *)
(* Floating point values are represented exactly: ParisLaw over the        *)
(* integers, 1/10**k as the record [pow10 |-> -k], and F*s*sqrt(pi*a) as   *)
(* the record [coef |-> F*s, sqrt_pi_times |-> a].                         *)
(***************************************************************************)
EXTENDS Integers, Sequences, FiniteSets, TLC

VARIABLES layer, config, built, kernel, weights, last

vars == <<layer, config, built, kernel, weights, last>>

\* ------------------------------------------------------------------ bounds
MaxFeat == 2        \* largest feature (column) count of an input
MaxBuilds == 2      \* cap on the number of add_weight calls on one instance

BatchSizes == {1, 2}        \* run-time batch sizes of the inputs
Depths == {1, 2}            \* third dimension of the rank-3 inputs
Values == {1, 2}            \* tensor element values
KernelValues == {2, 3}      \* values an initializer may produce

None == -1

LayerNames == {"StressIntensityRange", "ParisLaw", "SNCurve"}
Regularizers == {"None", "l2"}
Constraints == {"None", "non_neg"}

\* ------------------------------------------------------------- the kernel
\* self.kernel before build: the attribute does not exist (id 0).
NoKernel == [id |-> 0, vals |-> <<>>, regularizer |-> "None", constraint |-> "None"]

\* Layer.add_weight("kernel", shape=[n], initializer, regularizer, constraint):
\* a new variable of n scalars, the id-th weight of the layer, filled with
\* the first n values the initializer draws and carrying the regularizer
\* and the constraint it was given (None when not given).
add_weight(n, id, draws, regularizer, constraint) ==
    [id |-> id, vals |-> SubSeq(draws, 1, n),
     regularizer |-> regularizer, constraint |-> constraint]

\* The values an initializer may draw.
InitializerDraws == [1..2 -> KernelValues]

\* ------------------------------------------------------------- the inputs
StaticDims(b) == {b, None}

Rank1Inputs ==
    UNION {{[shape |-> <<s>>, data |-> d] :
              s \in StaticDims(b), d \in [1..b -> Values]} : b \in BatchSizes}

Rank2Of(b, f) ==
    {[shape |-> <<s, f>>, data |-> d] :
        s \in StaticDims(b), d \in [1..b -> [1..f -> Values]]}

Rank2Inputs == UNION {UNION {Rank2Of(b, f) : f \in 1..MaxFeat} : b \in BatchSizes}

Rank3Of(b, f, k) ==
    {[shape |-> <<s, f, k>>,
      data |-> [i \in 1..b |-> [j \in 1..f |-> [l \in 1..k |-> v]]]] :
        s \in StaticDims(b), v \in Values}

Rank3Inputs ==
    UNION {UNION {UNION {Rank3Of(b, f, k) : k \in Depths} : f \in 1..MaxFeat} :
             b \in BatchSizes}

ShapeDims == {None} \cup (1..MaxFeat)

\* Shapes handed to build and compute_output_shape: (features) and
\* (batch, features), any dimension possibly None.
InputShapes ==
    {<<f>> : f \in ShapeDims}
        \cup {<<b, f>> : b \in {None} \cup BatchSizes, f \in ShapeDims}

\* kwargs forwarded by ParisLaw.build and SNCurve.build to add_weight; a key
\* that is absent leaves add_weight's default, None.
BuildKwargs ==
    {[regularizer |-> "None", constraint |-> "None"],
     [regularizer |-> "l2", constraint |-> "non_neg"]}

\* common_shapes.rank(inputs)
rank(inputs) == Len(inputs.shape)

\* ------------------------------------------------------------ the results
Raise(op, shape, data, error) ==
    [op |-> op, inShape |-> shape, inData |-> data, status |-> error,
     outShape |-> <<>>, outData |-> <<>>]

Return(op, shape, data, outShape, outData) ==
    [op |-> op, inShape |-> shape, inData |-> data, status |-> "ok",
     outShape |-> outShape, outData |-> outData]

RECURSIVE Pow(_, _)
Pow(x, n) == IF n = 0 THEN 1 ELSE x * Pow(x, n - 1)

\* The layer state a method may change.
State(b, k, w) == [built |-> b, kernel |-> k, weights |-> w]

\* ---------------------------------------------------- StressIntensityRange
\* Variant: a failed build also clears the built flag.
StressIntensityRange_build_clears_built(cfg, st, input_shape, draws) ==
    IF input_shape[Len(input_shape)] = None
    THEN [st |-> State(FALSE, st.kernel, st.weights),
          last |-> Raise("build", input_shape, <<>>, "ValueError_LastDimNone")]
    ELSE [st |-> State(TRUE,
                       add_weight(1, st.weights + 1, draws,
                                  cfg.kernel_regularizer, cfg.kernel_constraint),
                       st.weights + 1),
          last |-> Return("build", input_shape, <<>>, <<>>, <<>>)]

\* Variant: the last dimension is checked after add_weight, not before.
StressIntensityRange_build_checks_late(cfg, st, input_shape, draws) ==
    LET k == add_weight(1, st.weights + 1, draws,
                        cfg.kernel_regularizer, cfg.kernel_constraint)
    IN  IF input_shape[Len(input_shape)] = None
        THEN [st |-> State(st.built, k, st.weights + 1),
              last |-> Raise("build", input_shape, <<>>, "ValueError_LastDimNone")]
        ELSE [st |-> State(TRUE, k, st.weights + 1),
              last |-> Return("build", input_shape, <<>>, <<>>, <<>>)]

\* Variant: the kernel is given shape [2], as in the other two layers.
StressIntensityRange_build_shape_two(cfg, st, input_shape, draws) ==
    IF input_shape[Len(input_shape)] = None
    THEN [st |-> st,
          last |-> Raise("build", input_shape, <<>>, "ValueError_LastDimNone")]
    ELSE [st |-> State(TRUE,
                       add_weight(2, st.weights + 1, draws,
                                  cfg.kernel_regularizer, cfg.kernel_constraint),
                       st.weights + 1),
          last |-> Return("build", input_shape, <<>>, <<>>, <<>>)]

\* build: raises when the last dimension is None, before anything is
\* allocated; otherwise adds a kernel of shape [1] with the configured
\* regularizer and constraint and sets built.
StressIntensityRange_build(cfg, st, input_shape, draws) ==
    IF input_shape[Len(input_shape)] = None
    THEN [st |-> st,
          last |-> Raise("build", input_shape, <<>>, "ValueError_LastDimNone")]
    ELSE [st |-> State(TRUE,
                       add_weight(1, st.weights + 1, draws,
                                  cfg.kernel_regularizer, cfg.kernel_constraint),
                       st.weights + 1),
          last |-> Return("build", input_shape, <<>>, <<>>, <<>>)]

\* self.kernel*inputs[:,1]*sqrt(pi*inputs[:,0]): a kernel of shape [1]
\* broadcast against two columns of shape [batch] gives shape [batch].
StressIntensityRange_output(k, inputs) ==
    [i \in 1..Len(inputs.data) |->
        [coef |-> k.vals[1] * inputs.data[i][2], sqrt_pi_times |-> inputs.data[i][1]]]

StressIntensityRange_call(k, inputs) ==
    IF rank(inputs) # 2
    THEN Raise("call", inputs.shape, inputs.data, "ValueError_Rank2")
    ELSE IF k.id = 0
    THEN Raise("call", inputs.shape, inputs.data, "AttributeError")
    ELSE IF inputs.shape[2] < 2
    THEN Raise("call", inputs.shape, inputs.data, "SliceError")
    ELSE Return("call", inputs.shape, inputs.data,
                <<inputs.shape[1]>>, StressIntensityRange_output(k, inputs))

\* Variant: the output shape is derived from input_shape, as Dense does.
compute_output_shape_of_input(input_shape) ==
    SubSeq(input_shape, 1, Len(input_shape) - 1) \o <<1>>

\* aux_shape = TensorShape((None,1)); aux_shape[:-1].concatenate(1)
compute_output_shape(input_shape) ==
    LET aux_shape == <<None, 1>>
    IN  SubSeq(aux_shape, 1, Len(aux_shape) - 1) \o <<1>>

\* ---------------------------------------------------------------- ParisLaw
\* build: no check of input_shape; the kernel of shape [2] gets the
\* initializer and whatever kwargs carries, not the configured regularizer
\* and constraint.
ParisLaw_build(cfg, st, input_shape, draws, kwargs) ==
    [st |-> State(TRUE,
                  add_weight(2, st.weights + 1, draws,
                             kwargs.regularizer, kwargs.constraint),
                  st.weights + 1),
     last |-> Return("build", input_shape, <<>>, <<>>, <<>>)]

\* Variant: the two kernel entries are read in the other order.
ParisLaw_output_swapped(k, inputs) ==
    [i \in 1..Len(inputs.data) |->
        [j \in 1..Len(inputs.data[i]) |-> k.vals[2] * Pow(inputs.data[i][j], k.vals[1])]]

\* self.kernel[0]*(inputs**self.kernel[1]), elementwise over the whole input
ParisLaw_output(k, inputs) ==
    [i \in 1..Len(inputs.data) |->
        [j \in 1..Len(inputs.data[i]) |-> k.vals[1] * Pow(inputs.data[i][j], k.vals[2])]]

ParisLaw_call(k, inputs) ==
    IF rank(inputs) # 2
    THEN Raise("call", inputs.shape, inputs.data, "ValueError_Rank2")
    ELSE IF k.id = 0
    THEN Raise("call", inputs.shape, inputs.data, "AttributeError")
    ELSE Return("call", inputs.shape, inputs.data,
                inputs.shape, ParisLaw_output(k, inputs))

\* ----------------------------------------------------------------- SNCurve
SNCurve_build(cfg, st, input_shape, draws, kwargs) ==
    [st |-> State(TRUE,
                  add_weight(2, st.weights + 1, draws,
                             kwargs.regularizer, kwargs.constraint),
                  st.weights + 1),
     last |-> Return("build", input_shape, <<>>, <<>>, <<>>)]

\* 1/10**(self.kernel[0]*x+self.kernel[1]) for one element x
SNCurve_element(k, x) == [pow10 |-> 0 - (k.vals[1] * x + k.vals[2])]

\* Variant: the formula reads inputs[:,0] instead of inputs[:,1].
SNCurve_output_column0(k, inputs) ==
    IF rank(inputs) = 2
    THEN [i \in 1..Len(inputs.data) |-> SNCurve_element(k, inputs.data[i][1])]
    ELSE [i \in 1..Len(inputs.data) |->
            [l \in 1..Len(inputs.data[i][1]) |->
                SNCurve_element(k, inputs.data[i][1][l])]]

\* 1/10**(self.kernel[0]*inputs[:,1]+self.kernel[1]): inputs[:,1] drops the
\* second dimension, so a rank-2 input gives shape [batch] and a rank-3 input
\* of shape [batch, f, d] gives shape [batch, d].
SNCurve_output(k, inputs) ==
    IF rank(inputs) = 2
    THEN [i \in 1..Len(inputs.data) |-> SNCurve_element(k, inputs.data[i][2])]
    ELSE [i \in 1..Len(inputs.data) |->
            [l \in 1..Len(inputs.data[i][2]) |->
                SNCurve_element(k, inputs.data[i][2][l])]]

\* call: no rank check.  The kernel is read first, then inputs[:,1] is
\* sliced; when the batch dimension of the output is static the output is
\* reshaped to (batch, 1), which fails unless it holds batch elements.
SNCurve_call(k, inputs) ==
    IF k.id = 0
    THEN Raise("call", inputs.shape, inputs.data, "AttributeError")
    ELSE IF rank(inputs) < 2
    THEN Raise("call", inputs.shape, inputs.data, "SliceError")
    ELSE IF inputs.shape[2] < 2
    THEN Raise("call", inputs.shape, inputs.data, "SliceError")
    ELSE LET output == SNCurve_output(k, inputs)
             shape == <<inputs.shape[1]>> \o SubSeq(inputs.shape, 3, rank(inputs))
         IN  IF shape[1] = None
             THEN Return("call", inputs.shape, inputs.data, shape, output)
             ELSE IF rank(inputs) = 2
             THEN Return("call", inputs.shape, inputs.data, <<shape[1], 1>>,
                         [i \in 1..Len(output) |-> <<output[i]>>])
             ELSE IF shape[2] = 1
             THEN Return("call", inputs.shape, inputs.data, <<shape[1], 1>>, output)
             ELSE Raise("call", inputs.shape, inputs.data, "ReshapeError")

\* ------------------------------------------------------------ construction
\* __init__: the configuration is stored, the base layer starts unbuilt
\* with no weights and no kernel attribute.
Init ==
    /\ layer \in LayerNames
    /\ config \in [kernel_initializer : {"glorot_uniform"},
                   kernel_regularizer : Regularizers,
                   kernel_constraint : Constraints]
    /\ built = FALSE
    /\ kernel = NoKernel
    /\ weights = 0
    /\ last = Raise("__init__", <<>>, <<>>, "ok")

Apply(r) ==
    /\ built' = r.st.built
    /\ kernel' = r.st.kernel
    /\ weights' = r.st.weights
    /\ last' = r.last
    /\ UNCHANGED <<layer, config>>

Answer(r) ==
    /\ last' = r
    /\ UNCHANGED <<layer, config, built, kernel, weights>>

Current == State(built, kernel, weights)

BuildStressIntensityRange ==
    /\ layer = "StressIntensityRange"
    /\ weights < MaxBuilds
    /\ \E input_shape \in InputShapes, draws \in InitializerDraws :
          Apply(StressIntensityRange_build(config, Current, input_shape, draws))

BuildParisLaw ==
    /\ layer = "ParisLaw"
    /\ weights < MaxBuilds
    /\ \E input_shape \in InputShapes, draws \in InitializerDraws, kwargs \in BuildKwargs :
          Apply(ParisLaw_build(config, Current, input_shape, draws, kwargs))

BuildSNCurve ==
    /\ layer = "SNCurve"
    /\ weights < MaxBuilds
    /\ \E input_shape \in InputShapes, draws \in InitializerDraws, kwargs \in BuildKwargs :
          Apply(SNCurve_build(config, Current, input_shape, draws, kwargs))

CallStressIntensityRange ==
    /\ layer = "StressIntensityRange"
    /\ \/ \E inputs \in Rank1Inputs : Answer(StressIntensityRange_call(kernel, inputs))
       \/ \E inputs \in Rank2Inputs : Answer(StressIntensityRange_call(kernel, inputs))
       \/ \E inputs \in Rank3Inputs : Answer(StressIntensityRange_call(kernel, inputs))

CallParisLaw ==
    /\ layer = "ParisLaw"
    /\ \/ \E inputs \in Rank1Inputs : Answer(ParisLaw_call(kernel, inputs))
       \/ \E inputs \in Rank2Inputs : Answer(ParisLaw_call(kernel, inputs))
       \/ \E inputs \in Rank3Inputs : Answer(ParisLaw_call(kernel, inputs))

CallSNCurve ==
    /\ layer = "SNCurve"
    /\ \/ \E inputs \in Rank1Inputs : Answer(SNCurve_call(kernel, inputs))
       \/ \E inputs \in Rank2Inputs : Answer(SNCurve_call(kernel, inputs))
       \/ \E inputs \in Rank3Inputs : Answer(SNCurve_call(kernel, inputs))

\* compute_output_shape is the same three lines in the three classes.
ComputeOutputShape ==
    \E input_shape \in InputShapes :
        Answer(Return("compute_output_shape", input_shape, <<>>,
                      compute_output_shape(input_shape), <<>>))

Next ==
    \/ BuildStressIntensityRange
    \/ BuildParisLaw
    \/ BuildSNCurve
    \/ CallStressIntensityRange
    \/ CallParisLaw
    \/ CallSNCurve
    \/ ComputeOutputShape

Spec == Init /\ [][Next]_vars

\* ================================================================== claims
IsCall == last.op = "call"
IsBuild == last.op = "build"
IsShapeQuery == last.op = "compute_output_shape"
InRank == Len(last.inShape)
Allocated == kernel.id # 0

\* The kernel length the classes ask add_weight for.
KernelLength == IF layer = "StressIntensityRange" THEN 1 ELSE 2

\* A rank-2 input with the columns the layer's formula reads.
ValidInput(shape) ==
    /\ Len(shape) = 2
    /\ shape[2] >= (IF layer = "ParisLaw" THEN 1 ELSE 2)

\* C1: for every layer and every rank-2 input, static batch or not, the
\* tensor call returns has rank 2 and shape (batch, 1).
C1_CallReturnsBatchByOne ==
    (IsCall /\ last.status = "ok" /\ InRank = 2)
        => last.outShape = <<last.inShape[1], 1>>

\* C2: for every layer, a call with an input of rank 1 or 3 never returns an
\* output tensor (it ends in the layer's rank error).
C2_WrongRankNeverReturns ==
    (IsCall /\ InRank \in {1, 3}) => last.status # "ok"

\* C3: for every layer, build with an input shape whose last dimension is
\* None raises instead of allocating the kernel and setting built.
C3_BuildRejectsUnknownLastDim ==
    (IsBuild /\ last.inShape[InRank] = None)
        => last.status = "ValueError_LastDimNone"

\* C4: a built ParisLaw with kernel [C, m] called on a rank-2 input returns
\* a tensor holding C * x^m at the position of every element x.
C4_ParisLawIsCTimesXToTheM ==
    (layer = "ParisLaw" /\ Allocated /\ IsCall /\ InRank = 2)
        => /\ last.status = "ok"
           /\ Len(last.outData) = Len(last.inData)
           /\ \A i \in 1..Len(last.inData) :
                /\ Len(last.outData[i]) = Len(last.inData[i])
                /\ \A j \in 1..Len(last.inData[i]) :
                     last.outData[i][j]
                         = kernel.vals[1] * (last.inData[i][j] ^ kernel.vals[2])

\* C4 witness: C=2, m=3, input [[2]] gives [[16]].
C4_Witness ==
    /\ layer = "ParisLaw" /\ IsCall /\ last.status = "ok"
    /\ kernel.vals = <<2, 3>>
    /\ last.inData = <<<<2>>>>
    /\ last.outData = <<<<16>>>>

\* C5 as stated: compute_output_shape of (batch, features) returns (batch, 1)
\* with the batch dimension of the given shape.
C5_ShapeQueryKeepsBatch ==
    (IsShapeQuery /\ InRank = 2) => last.outShape = <<last.inShape[1], 1>>

\* C5 amended: compute_output_shape returns (None, 1) whatever shape it is
\* given, and leaves the built flag, the kernel and the weights as they were,
\* before and after build.
C5_ShapeQueryReturnsNoneByOne ==
    [][last'.op = "compute_output_shape"
          => /\ last'.status = "ok"
             /\ last'.outShape = <<None, 1>>
             /\ built' = built /\ kernel' = kernel /\ weights' = weights]_vars

\* C5 witness: a built layer asked for the output shape of (2, 2).
C5_Witness ==
    /\ built /\ IsShapeQuery
    /\ last.inShape = <<2, 2>>
    /\ last.outShape = <<None, 1>>

\* C6: once built is true it is never false again, whatever build, call or
\* compute_output_shape does and whether it fails, and a built layer accepts
\* every valid call.
C6_BuiltNeverReset ==
    [][/\ built => built'
       /\ (built' /\ last'.op = "call" /\ ValidInput(last'.inShape))
             => last'.status = "ok"]_vars

\* C6 witness: a build failed on a layer that was built, and it is still built.
C6_Witness ==
    built /\ IsBuild /\ last.status = "ValueError_LastDimNone"

\* C7: a build or call that fails leaves the built flag, the kernel, the
\* weights and the configuration as they were; a failed build of an unbuilt
\* layer leaves it unbuilt with no kernel.
C7_FailureLeavesState ==
    [][(last'.op \in {"build", "call"} /\ last'.status # "ok")
          => /\ built' = built /\ kernel' = kernel /\ weights' = weights
             /\ config' = config
             /\ (~built => ~built' /\ kernel' = NoKernel /\ weights' = 0)]_vars

\* C7 witness: a build failed on an unknown last dimension and the layer is
\* unbuilt with no kernel.
C7_Witness ==
    /\ IsBuild /\ last.status = "ValueError_LastDimNone"
    /\ ~built /\ kernel = NoKernel /\ weights = 0

\* C8: a layer constructed with a regularizer or a constraint never has a
\* kernel without it: build attaches the constructor's ones.
C8_KernelCarriesConfiguredRegularizer ==
    Allocated
        => /\ config.kernel_regularizer # "None"
                => kernel.regularizer = config.kernel_regularizer
           /\ config.kernel_constraint # "None"
                => kernel.constraint = config.kernel_constraint

\* C9 as stated: the kernel is allocated exactly once, by the first
\* successful build, and no later build allocates a second one or replaces it.
C9_KernelAllocatedOnce ==
    /\ weights <= 1
    /\ Allocated => kernel.id = 1 /\ Len(kernel.vals) = KernelLength

\* C9 amended: the kernel always has length 1 for StressIntensityRange and 2
\* for ParisLaw and SNCurve, and no call or compute_output_shape allocates,
\* replaces or changes it; but every successful build, the first or a later
\* one, adds one weight to the layer and makes it the kernel.
C9_KernelLengthFixedBuildReallocates ==
    [][/\ kernel'.id # 0 => Len(kernel'.vals) = KernelLength
       /\ last'.op \in {"call", "compute_output_shape"}
             => kernel' = kernel /\ weights' = weights
       /\ (last'.op = "build" /\ last'.status = "ok" /\ vars' # vars)
             => /\ weights' = weights + 1
                /\ kernel'.id = weights'
                /\ kernel' # kernel]_vars

\* C9 witness: a second successful build has replaced the kernel.
C9_Witness ==
    /\ IsBuild /\ last.status = "ok"
    /\ weights = 2 /\ kernel.id = 2
    /\ Len(kernel.vals) = KernelLength

====
